---- MODULE Spec2Model ----
(***************************************************************************)
(* A model of the FastAPI CRUD application of src/main.py: two MongoDB     *)
(* collections (items, clock-in records), the route table in declaration   *)
(* order, and every handler split at its datastore calls (each `await` of  *)
(* a collection method is one atomic step; other requests may run between  *)
(* two steps of the same handler).                                         *)
(*                                                                         *)
(* Python values: a str that the code inspects (a path segment, an ISO     *)
(* date) is a sequence of one-character strings; other strs are TLA+       *)
(* strings; a datetime is a number of microseconds; a date is a record     *)
(* [y, m, d]; Optional[T] is None == <<>> or Some(v) == <<v>>; a dict is a *)
(* function from its keys.                                                 *)
(***************************************************************************)
EXTENDS Integers, Sequences, FiniteSets, TLC

VARIABLES
    database,   \* database.py: collection name -> documents in insertion order
    inc,        \* the ObjectId generator's process-wide counter
    now,        \* the server clock, in microseconds: what datetime.utcnow() returns
    tasks,      \* the handlers suspended at an await, oldest first
    last,       \* the response sent by the step just taken (NoResponse once delivered),
                \* with what its request did on the way
    orig,       \* ObjectId -> the body and 201 entity of the Create that made it,
                \* kept while no other request has written or deleted the document
    deleted     \* ObjectIds a Delete answered 204 for

vars == <<database, inc, now, tasks, last, orig, deleted>>

(***************************************************************************)
(* Bounds of the model.                                                    *)
(***************************************************************************)
MaxOid == 2
\* The time that passes between two stampings of the server clock.
TickUs == 1500

Clients == {"c1", "c2"}

(***************************************************************************)
(* Python / BSON values.                                                   *)
(***************************************************************************)
None == <<>>
Some(v) == <<v>>

HexDigits == <<"0", "1", "2", "3", "4", "5", "6", "7", "8", "9",
               "a", "b", "c", "d", "e", "f">>
DecDigits == SubSeq(HexDigits, 1, 10)

RECURSIVE ToDigits(_, _, _)
ToDigits(n, len, digits) ==
    IF len = 0 THEN <<>>
    ELSE Append(ToDigits(n \div Len(digits), len - 1, digits),
                digits[(n % Len(digits)) + 1])

HexSet == {HexDigits[i] : i \in 1..Len(HexDigits)}
DecSet == {DecDigits[i] : i \in 1..Len(DecDigits)}
DigitVal == [ch \in HexSet |-> (CHOOSE i \in 1..Len(HexDigits) : HexDigits[i] = ch) - 1]

\* The number that the first n characters of s write in the given base.
RECURSIVE FromDigits(_, _, _)
FromDigits(s, n, base) ==
    IF n = 0 THEN 0 ELSE base * FromDigits(s, n - 1, base) + DigitVal[s[n]]

AllIn(s, digits) == \A i \in 1..Len(s) : s[i] \in digits

\* bson.ObjectId: 12 bytes, written as 24 hexadecimal characters.
OidLen == 24
\* Mutant of is_valid: the length check is forgotten.
is_valid_any_length(s) == AllIn(s, HexSet)
is_valid(s) == Len(s) = OidLen /\ AllIn(s, HexSet)
ObjectId(s) == FromDigits(s, Len(s), Len(HexDigits))
str(oid) == ToDigits(oid, OidLen, HexDigits)

\* datetime.date.isoformat(), which jsonable_encoder applies to a date, and
\* pydantic's parsing of such a string back into a date.
isoformat(d) == ToDigits(d.y, 4, DecDigits) \o <<"-">> \o ToDigits(d.m, 2, DecDigits)
                \o <<"-">> \o ToDigits(d.d, 2, DecDigits)
parse_date(s) ==
    IF /\ Len(s) = 10 /\ s[5] = "-" /\ s[8] = "-"
       /\ AllIn(SubSeq(s, 1, 4) \o SubSeq(s, 6, 7) \o SubSeq(s, 9, 10), DecSet)
    THEN Some([y |-> FromDigits(SubSeq(s, 1, 4), 4, Len(DecDigits)),
               m |-> FromDigits(SubSeq(s, 6, 7), 2, Len(DecDigits)),
               d |-> FromDigits(SubSeq(s, 9, 10), 2, Len(DecDigits))])
    ELSE None

\* BSON stores a datetime as whole milliseconds: the microseconds below are lost.
UsPerMs == 1000
bson_datetime(t) == t - (t % UsPerMs)

\* The fields that hold a datetime.date object in a validated model.
DateFields == {"expiry_date"}
jsonable_encoder(obj) ==
    [k \in DOMAIN obj |-> IF k \in DateFields THEN isoformat(obj[k]) ELSE obj[k]]
\* pymongo encodes str, int and datetime.datetime; a datetime.date raises
\* bson.errors.InvalidDocument before anything is sent to the server.
bson_encodable(doc) == DOMAIN doc \cap DateFields = {}

(***************************************************************************)
(* models.py                                                               *)
(***************************************************************************)
ItemBaseFields == {"name", "email", "item_name", "quantity", "expiry_date"}
ClockInBaseFields == {"email", "location"}

\* Mutant of quantity_ge_0: the ge=0 constraint is dropped.
quantity_unchecked(q) == TRUE
quantity_ge_0(q) == q >= 0
ItemCreate(body) == DOMAIN body = ItemBaseFields /\ quantity_ge_0(body.quantity)
ClockInCreate(body) == DOMAIN body = ClockInBaseFields

\* An Update model keeps its declared fields only (an extra key such as
\* insert_date is ignored), each Optional.
ItemUpdateValid(body) == body.quantity = None \/ quantity_ge_0(body.quantity[1])
ItemUpdate(body) == [k \in ItemBaseFields |-> body[k]]
ClockInUpdateValid(body) == TRUE
ClockInUpdate(body) == [k \in ClockInBaseFields |-> body[k]]

\* Item(**doc): _id is turned into its str, expiry_date is parsed, and a
\* missing insert_date is filled in by default_factory=datetime.utcnow.
Item(doc, t) ==
    [id |-> str(doc["_id"]), name |-> doc.name, email |-> doc.email,
     item_name |-> doc.item_name, quantity |-> doc.quantity,
     expiry_date |-> parse_date(doc.expiry_date)[1],
     insert_date |-> IF "insert_date" \in DOMAIN doc THEN doc.insert_date ELSE t]
ClockInRecord(doc, t) ==
    [id |-> str(doc["_id"]), email |-> doc.email, location |-> doc.location,
     insert_datetime |->
        IF "insert_datetime" \in DOMAIN doc THEN doc.insert_datetime ELSE t]

(***************************************************************************)
(* database.py and the collection methods the handlers await.              *)
(***************************************************************************)
items_collection == "items_collection"
clockin_collection == "clockin_collection"
Collections == {items_collection, clockin_collection}

Index(coll, oid) == {i \in 1..Len(database[coll]) : database[coll][i]["_id"] = oid}
\* Mutant of find_one: the filter names a key no document has.
find_one_wrong_key(coll, oid) == None
find_one(coll, oid) ==
    IF Index(coll, oid) = {} THEN None
    ELSE Some(database[coll][CHOOSE i \in Index(coll, oid) : TRUE])

\* insert_one: the driver draws a fresh ObjectId, encodes the document as BSON
\* (a datetime loses its microseconds) and the server appends it.
DatetimeFields == {"insert_date", "insert_datetime"}
bson_encode(doc) ==
    [k \in DOMAIN doc |-> IF k \in DatetimeFields THEN bson_datetime(doc[k]) ELSE doc[k]]
NewObjectId == inc + 1
insert_one(coll, doc) ==
    [database EXCEPT ![coll] =
        Append(@, [k \in DOMAIN doc \cup {"_id"} |->
                     IF k = "_id" THEN NewObjectId ELSE bson_encode(doc)[k]])]

\* update_one with {"$set": data}: only the keys of data are written.
set_fields(doc, data) ==
    [k \in DOMAIN doc \cup DOMAIN data |-> IF k \in DOMAIN data THEN data[k] ELSE doc[k]]
\* Mutant of update_one: the filter is dropped, every document is written.
update_every_one(coll, oid, data) ==
    [database EXCEPT ![coll] = [i \in 1..Len(@) |-> set_fields(@[i], bson_encode(data))]]
update_one(coll, oid, data) ==
    [database EXCEPT ![coll] =
        [i \in 1..Len(@) |->
            IF @[i]["_id"] = oid THEN set_fields(@[i], bson_encode(data)) ELSE @[i]]]
modified_count(coll, oid, data) ==
    IF /\ find_one(coll, oid) # None
       /\ set_fields(find_one(coll, oid)[1], bson_encode(data)) # find_one(coll, oid)[1]
    THEN 1 ELSE 0

delete_one(coll, oid) ==
    [database EXCEPT ![coll] = SelectSeq(@, LAMBDA d : d["_id"] # oid)]
deleted_count(coll, oid) == IF find_one(coll, oid) # None THEN 1 ELSE 0

\* find(query): the documents, in insertion order, that satisfy every key of
\* the query: a plain value is an equality, "$gt" and "$gte" are comparisons.
QueryOps == [email |-> "eq", location |-> "eq", quantity |-> "gte",
             expiry_date |-> "gt", insert_date |-> "gt", insert_datetime |-> "gt"]
matches(doc, query) ==
    \A k \in DOMAIN query :
        /\ k \in DOMAIN doc
        /\ CASE QueryOps[k] = "eq" -> doc[k] = query[k]
             [] QueryOps[k] = "gte" -> doc[k] >= query[k]
             [] QueryOps[k] = "gt" -> doc[k] > bson_encode(query)[k]
find(coll, query) == SelectSeq(database[coll], LAMBDA d : matches(d, query))

(***************************************************************************)
(* main.py: the route table, in declaration order.  A path is a prefix and *)
(* at most one further segment; "{id}" matches any non-empty segment.      *)
(***************************************************************************)
FilterSeg == <<"f", "i", "l", "t", "e", "r">>
AggregateSeg == <<"a", "g", "g", "r", "e", "g", "a", "t", "e">>
NoSeg == [kind |-> "none", text |-> <<>>]
IdParam == [kind |-> "param", text |-> <<>>]
Literal(s) == [kind |-> "literal", text |-> s]

routes == <<
    [method |-> "POST", prefix |-> "items", seg |-> NoSeg, handler |-> "create_item"],
    [method |-> "GET", prefix |-> "items", seg |-> IdParam, handler |-> "get_item"],
    [method |-> "GET", prefix |-> "items", seg |-> Literal(FilterSeg),
     handler |-> "filter_items"],
    [method |-> "DELETE", prefix |-> "items", seg |-> IdParam, handler |-> "delete_item"],
    [method |-> "PUT", prefix |-> "items", seg |-> IdParam, handler |-> "update_item"],
    [method |-> "POST", prefix |-> "clock-in", seg |-> NoSeg, handler |-> "create_clockin"],
    [method |-> "GET", prefix |-> "clock-in", seg |-> IdParam, handler |-> "get_clockin"],
    [method |-> "GET", prefix |-> "clock-in", seg |-> Literal(FilterSeg),
     handler |-> "filter_clockins"],
    [method |-> "DELETE", prefix |-> "clock-in", seg |-> IdParam,
     handler |-> "delete_clockin"],
    [method |-> "PUT", prefix |-> "clock-in", seg |-> IdParam, handler |-> "update_clockin"] >>

Matches(route, req) ==
    /\ route.method = req.method
    /\ route.prefix = req.prefix
    /\ CASE route.seg.kind = "none" -> req.seg = <<>>
         [] route.seg.kind = "param" -> req.seg # <<>>
         [] route.seg.kind = "literal" -> req.seg = route.seg.text

\* The first route that matches serves the request.
Route(req) ==
    LET hits == {i \in 1..Len(routes) : Matches(routes[i], req)}
    IN  IF hits = {} THEN "not_found"
        ELSE routes[CHOOSE i \in hits : \A j \in hits : i <= j].handler

(***************************************************************************)
(* The requests the clients send.                                          *)
(***************************************************************************)
D1 == [y |-> 2024, m |-> 12, d |-> 31]
D2 == [y |-> 2025, m |-> 1, d |-> 1]

ItemBody(email, quantity) ==
    [name |-> "Sample", email |-> email, item_name |-> "Widget",
     quantity |-> quantity, expiry_date |-> D1]
ItemCreateBodies ==
    {ItemBody("a@b.com", 10), ItemBody("a@b.com", -1)}
ClockInCreateBodies == {[email |-> "a@b.com", location |-> "New York Office"]}

ItemPatch(name, email, quantity, expiry_date, insert_date) ==
    [name |-> name, email |-> email, item_name |-> None, quantity |-> quantity,
     expiry_date |-> expiry_date, insert_date |-> insert_date]
ItemUpdateBodies ==
    {ItemPatch(None, None, None, None, None),
     ItemPatch(None, None, None, None, Some(5)),
     ItemPatch(None, None, Some(5), None, None),
     ItemPatch(Some("Other"), Some("c@d.com"), None, None, Some(5)),
     ItemPatch(None, None, None, Some(D2), None),
     ItemPatch(None, None, Some(-1), None, None)}
ClockInPatch(location, insert_datetime) ==
    [email |-> None, location |-> location, insert_datetime |-> insert_datetime]
ClockInUpdateBodies ==
    {ClockInPatch(None, None), ClockInPatch(None, Some(5)),
     ClockInPatch(Some("San Francisco Office"), None)}

ItemQuery(email, expiry_date, insert_date, quantity) ==
    [email |-> email, expiry_date |-> expiry_date, insert_date |-> insert_date,
     quantity |-> quantity]
ItemQueries ==
    {ItemQuery(None, None, None, None),
     ItemQuery(Some("a@b.com"), None, Some(500), Some(0)),
     ItemQuery(None, Some(D1), None, None)}
ClockInQuery(email, location, insert_datetime) ==
    [email |-> email, location |-> location, insert_datetime |-> insert_datetime]
ClockInQueries ==
    {ClockInQuery(None, None, None), ClockInQuery(None, Some(""), None),
     ClockInQuery(Some("a@b.com"), Some("New York Office"), Some(500))}

\* A 24-character segment that is not hexadecimal.
NotHexSeg == [i \in 1..OidLen |-> IF i = OidLen THEN "g" ELSE "0"]
\* A hexadecimal segment of the wrong length.
ShortHexSeg == <<"a", "b", "c">>
IdSegs == {str(n) : n \in 1..MaxOid} \cup {ShortHexSeg}
GetSegs == IdSegs \cup {NotHexSeg, FilterSeg, AggregateSeg}

Prefixes == {"items", "clock-in"}
CollectionOf(prefix) == IF prefix = "items" THEN items_collection ELSE clockin_collection
Request(method, prefix, seg, body, params) ==
    [method |-> method, prefix |-> prefix, seg |-> seg, body |-> body, params |-> params]

(***************************************************************************)
(* Handlers.  A task is a handler suspended at an await; a response ends   *)
(* it and is recorded in last with what the request did on the way.        *)
(***************************************************************************)
Idle == [pc |-> "idle", req |-> None, coll |-> "", oid |-> 0, data |-> None,
         calls |-> 0, wrote |-> FALSE, matched |-> FALSE, interfered |-> FALSE,
         pre |-> None]
\* No response was sent in this step.
NoResponse ==
    [req |-> None, status |-> 0, result |-> None, coll |-> "", oid |-> 0,
     calls |-> 0, wrote |-> FALSE, matched |-> FALSE, interfered |-> FALSE,
     pre |-> None, gone |-> FALSE]

Started(req, coll) == [Idle EXCEPT !.req = req, !.coll = coll]

Response(t, status, result) ==
    [req |-> t.req, status |-> status, result |-> result,
     coll |-> t.coll, oid |-> t.oid, calls |-> t.calls, wrote |-> t.wrote,
     matched |-> t.matched, interfered |-> t.interfered, pre |-> t.pre,
     gone |-> t.oid \in deleted]

\* The suspended handlers after a request wrote document oid of coll: every
\* one of them that works on that document has been interfered with.
RECURSIVE Interfere(_, _, _)
Interfere(ts, coll, oid) ==
    IF ts = <<>> THEN <<>>
    ELSE <<IF Head(ts).coll = coll /\ Head(ts).oid = oid
           THEN [Head(ts) EXCEPT !.interfered = TRUE] ELSE Head(ts)>>
         \o Interfere(Tail(ts), coll, oid)
AfterWrite(coll, oid) == Interfere(tasks, coll, oid)
\* The suspended handlers once the i-th of them has responded.
Finished(i) == SubSeq(tasks, 1, i - 1) \o SubSeq(tasks, i + 1, Len(tasks))
\* Every client has at most one request outstanding.
Accepting == last = NoResponse /\ Len(tasks) < Cardinality(Clients)

TimestampField(coll) == IF coll = items_collection THEN "insert_date" ELSE "insert_datetime"
Entity(coll, doc, t) == IF coll = items_collection THEN Item(doc, t) ELSE ClockInRecord(doc, t)

\* main.py 32-33, 120-121: encode the validated body, then stamp the server time.
\* Mutant of stamped: the creation timestamp is never set.
unstamped(coll, body, t) == jsonable_encoder(body)
stamped(coll, body, t) ==
    [k \in DOMAIN jsonable_encoder(body) \cup {TimestampField(coll)} |->
        IF k = TimestampField(coll) THEN t ELSE jsonable_encoder(body)[k]]

\* create_item / create_clockin up to the end of insert_one.  The clock has
\* moved on by the time anything else reads it.
create(req, coll) ==
    /\ inc < MaxOid
    /\ database' = insert_one(coll, stamped(coll, req.body, now))
    /\ inc' = NewObjectId
    /\ tasks' = Append(tasks,
                  [Started(req, coll) EXCEPT !.pc = "create_find", !.oid = NewObjectId,
                                             !.calls = 1, !.wrote = TRUE])
    /\ now' = now + TickUs
    /\ last' = NoResponse
    /\ UNCHANGED <<orig, deleted>>
create_item(req) == create(req, items_collection)
create_clockin(req) == create(req, clockin_collection)

\* create_item / create_clockin from the re-read by inserted_id to the response.
CreateFind ==
    /\ last = NoResponse
    /\ \E i \in 1..Len(tasks) :
       /\ tasks[i].pc = "create_find"
       /\ LET t == [tasks[i] EXCEPT !.calls = @ + 1]
              created == find_one(t.coll, t.oid)
          IN  IF created # None
              THEN /\ last' = Response(t, 201, Some(Entity(t.coll, created[1], now)))
                   /\ orig' = IF t.interfered THEN orig
                              ELSE [orig EXCEPT ![t.oid] =
                                      Some([coll |-> t.coll, body |-> t.req.body,
                                            entity |-> Entity(t.coll, created[1], now)])]
              ELSE /\ last' = Response(t, 500, None)
                   /\ UNCHANGED orig
       /\ tasks' = Finished(i)
       /\ UNCHANGED <<database, inc, now, deleted>>

\* get_item / get_clockin.
get(req, coll) ==
    /\ IF ~is_valid(req.seg)
       THEN last' = Response(Started(req, coll), 400, None)
       ELSE LET t == [Started(req, coll) EXCEPT !.oid = ObjectId(req.seg), !.calls = 1]
                item == find_one(coll, t.oid)
            IN  IF item # None
                THEN last' = Response(t, 200, Some(Entity(coll, item[1], now)))
                ELSE last' = Response(t, 404, None)
    /\ UNCHANGED <<database, inc, now, tasks, orig, deleted>>
get_item(req) == get(req, items_collection)
get_clockin(req) == get(req, clockin_collection)

\* filter_items / filter_clockins: a parameter enters the query when the
\* handler's `if` takes it (truthiness; `is not None` for quantity).
StrParams == {"email", "location"}
taken(k, v) == v # None /\ (k \in StrParams => v[1] # "")
build_query(params) ==
    [k \in {k \in DOMAIN params : taken(k, params[k])} |-> params[k][1]]
RECURSIVE entities(_, _, _)
entities(coll, docs, t) ==
    IF docs = <<>> THEN <<>>
    ELSE <<Entity(coll, Head(docs), t)>> \o entities(coll, Tail(docs), t)
filter(req, coll) ==
    /\ LET t == [Started(req, coll) EXCEPT !.calls = 1]
       IN  IF ~bson_encodable(build_query(req.params))
           THEN last' = Response([t EXCEPT !.calls = 0], 500, None)
           ELSE last' = Response(t, 200,
                                 entities(coll, find(coll, build_query(req.params)), now))
    /\ UNCHANGED <<database, inc, now, tasks, orig, deleted>>
filter_items(req) == filter(req, items_collection)
filter_clockins(req) == filter(req, clockin_collection)

\* delete_item / delete_clockin.
delete(req, coll) ==
    IF ~is_valid(req.seg)
    THEN /\ last' = Response(Started(req, coll), 400, None)
         /\ UNCHANGED <<database, inc, now, tasks, orig, deleted>>
    ELSE LET oid == ObjectId(req.seg)
             n == deleted_count(coll, oid)
             t == [Started(req, coll) EXCEPT !.oid = oid, !.calls = 1, !.wrote = (n = 1)]
         IN  /\ database' = delete_one(coll, oid)
             /\ last' = Response(t, IF n = 1 THEN 204 ELSE 404, None)
             /\ deleted' = IF n = 1 THEN deleted \cup {oid} ELSE deleted
             /\ orig' = IF n = 1 THEN [orig EXCEPT ![oid] = None] ELSE orig
             /\ tasks' = IF n = 1 THEN AfterWrite(coll, oid) ELSE tasks
             /\ UNCHANGED <<inc, now>>
delete_item(req) == delete(req, items_collection)
delete_clockin(req) == delete(req, clockin_collection)

\* update_item / update_clockin, lines 97-103 and 179-185: the change-set is
\* the model's non-None fields without the creation timestamp; a non-empty
\* one is sent with update_one, an empty one goes straight to the last find_one.
change_set(coll, body) ==
    LET model == IF coll = items_collection THEN ItemUpdate(body) ELSE ClockInUpdate(body)
        given == {k \in DOMAIN model : model[k] # None} \ {TimestampField(coll)}
    IN  [k \in given |-> model[k][1]]
update(req, coll) ==
    IF ~is_valid(req.seg)
    THEN /\ last' = Response(Started(req, coll), 400, None)
         /\ UNCHANGED <<database, inc, now, tasks, orig, deleted>>
    ELSE LET oid == ObjectId(req.seg)
             data == change_set(coll, req.body)
             n == modified_count(coll, oid, data)
             t == [Started(req, coll) EXCEPT !.oid = oid, !.calls = 1,
                                             !.matched = (find_one(coll, oid) # None),
                                             !.pre = find_one(coll, oid)]
         IN  IF DOMAIN data # {}
             THEN IF ~bson_encodable(data)
                  THEN /\ last' = Response([Started(req, coll) EXCEPT !.oid = oid],
                                             500, None)
                       /\ UNCHANGED <<database, inc, now, tasks, orig, deleted>>
                  ELSE /\ database' = update_one(coll, oid, data)
                       /\ tasks' = Append(IF n = 1 THEN AfterWrite(coll, oid) ELSE tasks,
                                   [t EXCEPT !.pc = IF n = 1 THEN "update_find_updated"
                                                    ELSE "update_find_existing",
                                             !.wrote = (n = 1)])
                       /\ orig' = IF n = 1 THEN [orig EXCEPT ![oid] = None] ELSE orig
                       /\ last' = NoResponse
                       /\ UNCHANGED <<inc, now, deleted>>
             ELSE /\ last' = IF find_one(coll, oid) # None
                             THEN Response(t, 200,
                                           Some(Entity(coll, find_one(coll, oid)[1], now)))
                             ELSE Response(t, 404, None)
                  /\ UNCHANGED <<database, inc, now, tasks, orig, deleted>>
update_item(req) == update(req, items_collection)
update_clockin(req) == update(req, clockin_collection)

\* Lines 104-107 and 186-189: modified_count was 1, re-read the document.
UpdateFindUpdated ==
    /\ last = NoResponse
    /\ \E i \in 1..Len(tasks) :
       /\ tasks[i].pc = "update_find_updated"
       /\ LET t == [tasks[i] EXCEPT !.calls = @ + 1]
              updated == find_one(t.coll, t.oid)
          IN  IF updated # None
              THEN /\ last' = Response(t, 200, Some(Entity(t.coll, updated[1], now)))
                   /\ tasks' = Finished(i)
              ELSE /\ tasks' = [tasks EXCEPT ![i] = [t EXCEPT !.pc = "update_find_existing"]]
                   /\ last' = NoResponse
       /\ UNCHANGED <<database, inc, now, orig, deleted>>

\* Lines 108-111 and 190-193: the fallback read that decides 200 or 404.
UpdateFindExisting ==
    /\ last = NoResponse
    /\ \E i \in 1..Len(tasks) :
       /\ tasks[i].pc = "update_find_existing"
       /\ LET t == [tasks[i] EXCEPT !.calls = @ + 1]
              existing == find_one(t.coll, t.oid)
          IN  last' = IF existing # None
                      THEN Response(t, 200, Some(Entity(t.coll, existing[1], now)))
                      ELSE Response(t, 404, None)
       /\ tasks' = Finished(i)
       /\ UNCHANGED <<database, inc, now, orig, deleted>>

\* A body that fails its model's validation is answered by the framework
\* before the handler runs.
Unprocessable(req) ==
    /\ last' = Response(Started(req, CollectionOf(req.prefix)), 422, None)
    /\ UNCHANGED <<database, inc, now, tasks, orig, deleted>>

(***************************************************************************)
(* A client sends a request: the router picks the handler, which runs to   *)
(* its first await or to its response.                                     *)
(***************************************************************************)
HttpPost ==
    /\ Accepting
    /\ \E prefix \in Prefixes :
       \E body \in IF prefix = "items" THEN ItemCreateBodies ELSE ClockInCreateBodies :
          LET req == Request("POST", prefix, <<>>, body, None)
          IN  CASE Route(req) = "create_item" ->
                     IF ItemCreate(body) THEN create_item(req) ELSE Unprocessable(req)
                [] Route(req) = "create_clockin" ->
                     IF ClockInCreate(body) THEN create_clockin(req)
                     ELSE Unprocessable(req)

HttpGet ==
    /\ Accepting
    /\ \E prefix \in Prefixes : \E seg \in GetSegs :
       \E params \in IF seg # FilterSeg THEN {None}
                     ELSE IF prefix = "items" THEN ItemQueries ELSE ClockInQueries :
          LET req == Request("GET", prefix, seg, None, params)
          IN  CASE Route(req) = "get_item" -> get_item(req)
                [] Route(req) = "filter_items" -> filter_items(req)
                [] Route(req) = "get_clockin" -> get_clockin(req)
                [] Route(req) = "filter_clockins" -> filter_clockins(req)

HttpDelete ==
    /\ Accepting
    /\ \E prefix \in Prefixes : \E seg \in IdSegs :
          LET req == Request("DELETE", prefix, seg, None, None)
          IN  CASE Route(req) = "delete_item" -> delete_item(req)
                [] Route(req) = "delete_clockin" -> delete_clockin(req)

HttpPut ==
    /\ Accepting
    /\ \E prefix \in Prefixes : \E seg \in IdSegs :
       \E body \in IF prefix = "items" THEN ItemUpdateBodies ELSE ClockInUpdateBodies :
          LET req == Request("PUT", prefix, seg, body, None)
          IN  CASE Route(req) = "update_item" ->
                     IF ItemUpdateValid(body) THEN update_item(req)
                     ELSE Unprocessable(req)
                [] Route(req) = "update_clockin" ->
                     IF ClockInUpdateValid(body) THEN update_clockin(req)
                     ELSE Unprocessable(req)

\* The response leaves the server; the next step starts from NoResponse.
Deliver ==
    /\ last # NoResponse
    /\ last' = NoResponse
    /\ UNCHANGED <<database, inc, now, tasks, orig, deleted>>

Init ==
    /\ database = [coll \in Collections |-> <<>>]
    /\ inc = 0
    /\ now = 0
    /\ tasks = <<>>
    /\ last = NoResponse
    /\ orig = [oid \in 1..MaxOid |-> None]
    /\ deleted = {}

Next ==
    \/ HttpPost
    \/ HttpGet
    \/ HttpPut
    \/ HttpDelete
    \/ CreateFind
    \/ UpdateFindUpdated
    \/ UpdateFindExisting
    \/ Deliver

Spec == Init /\ [][Next]_vars

(***************************************************************************)
(* Vocabulary of the claims.                                               *)
(***************************************************************************)
Sent == last # NoResponse
Present(coll, oid) == \E i \in 1..Len(database[coll]) : database[coll][i]["_id"] = oid
\* A valid store identifier: 24 hexadecimal characters.
WellFormedId(s) == Len(s) = 24 /\ \A i \in 1..Len(s) : s[i] \in HexSet
ById(method) == Sent /\ last.req.method = method /\ last.status # 422
Supplied(body) == {k \in DOMAIN body \ DatetimeFields : body[k] # None}

\* C1: a valid Create, undisturbed by other requests on its document, answers
\* 201 with the input's fields, the new identifier and a server timestamp; a
\* Get-by-id of that identifier, while no other request has written or deleted
\* the document since its insertion, answers 200 with exactly the entity the
\* Create returned (same fields as the input, same creation timestamp).
C1_CreateThenGet ==
    /\ (ById("POST") /\ ~last.interfered) =>
          /\ last.status = 201
          /\ \A k \in DOMAIN last.req.body : last.result[1][k] = last.req.body[k]
          /\ WellFormedId(last.result[1].id)
          /\ ObjectId(last.result[1].id) = last.oid
          /\ last.result[1][TimestampField(last.coll)] <= now
    /\ (/\ ById("GET") /\ WellFormedId(last.req.seg)
        /\ orig[last.oid] # None /\ orig[last.oid][1].coll = last.coll) =>
          /\ last.status = 200
          /\ last.result[1] = orig[last.oid][1].entity
          /\ \A k \in DOMAIN orig[last.oid][1].body :
                last.result[1][k] = orig[last.oid][1].body[k]
C1_Witness ==
    /\ ById("GET") /\ last.status = 200 /\ last.coll = items_collection
    /\ orig[last.oid] # None
    /\ last.result[1].insert_date < now

\* C2: GET /items/filter and GET /clock-in/filter answer 200 with a sequence
\* of entities, which without query parameters holds every stored record.
C2_FilterServed ==
    (ById("GET") /\ last.req.seg = FilterSeg) =>
        /\ last.status = 200
        /\ (\A k \in DOMAIN last.req.params : last.req.params[k] = None) =>
              /\ Len(last.result) = Len(database[last.coll])
              /\ \A i \in 1..Len(last.result) :
                    ObjectId(last.result[i].id) = database[last.coll][i]["_id"]

\* C3: Update on a valid identifier answers 200 with the unchanged record when
\* the document exists and the effective change-set is empty, and 404 for
\* every payload when no document has that identifier; the store is the same.
C3_UpdateDecidesByExistence ==
    (ById("PUT") /\ WellFormedId(last.req.seg)) =>
        /\ (Present(last.coll, last.oid) /\ Supplied(last.req.body) = {}) =>
              /\ last.status = 200
              /\ last.result[1] = Entity(last.coll, last.pre[1], now)
              /\ ~last.wrote
        /\ ~Present(last.coll, last.oid) => last.status = 404

\* C4: once a Delete answered 204 for an identifier, every later Get-by-id,
\* Update and Delete on it answers 404, and no document has it ever again.
C4_DeletedStaysAbsent ==
    /\ \A oid \in deleted : \A coll \in Collections : ~Present(coll, oid)
    /\ (Sent /\ last.req.method \in {"GET", "PUT", "DELETE"} /\ last.status # 422
        /\ last.gone) => last.status = 404

Patched(d, body) ==
    [k \in DOMAIN d |-> IF k \in Supplied(body) THEN body[k][1] ELSE d[k]]
ShowsPatched(entity, d, body) ==
    /\ ObjectId(entity.id) = d["_id"]
    /\ \A k \in DOMAIN d \ {"_id", "expiry_date"} : entity[k] = Patched(d, body)[k]
    /\ "expiry_date" \in DOMAIN d => isoformat(entity.expiry_date) = Patched(d, body).expiry_date
\* The step in which an update handler returns from update_one and suspends.
UpdateOne ==
    /\ Len(tasks') = Len(tasks) + 1
    /\ tasks'[Len(tasks')].pc \in {"update_find_updated", "update_find_existing"}
UpdateOneFrame ==
    LET coll == tasks'[Len(tasks')].coll
    IN  /\ \A other \in Collections \ {coll} : database'[other] = database[other]
        /\ Len(database'[coll]) = Len(database[coll])
        /\ \A i \in 1..Len(database[coll]) :
              database'[coll][i] =
                 IF database[coll][i]["_id"] = tasks'[Len(tasks')].oid
                 THEN Patched(database[coll][i], tasks'[Len(tasks')].req.body)
                 ELSE database[coll][i]

\* C6 as claimed: a successful Update of an existing record writes exactly the
\* supplied fields of that one document, and the entity it returns shows the
\* document as that write left it.
C6_UpdateReturnsItsWrite ==
    (ById("PUT") /\ last.status = 200 /\ last.matched) =>
        ShowsPatched(last.result[1], last.pre[1], last.req.body)

\* C6 as amended: the update_one step of an Update writes exactly the supplied
\* fields of the one matching document and changes nothing else; no step
\* changes a stored document's creation timestamp; and the entity a successful
\* Update returns shows the document as that write left it whenever no other
\* request wrote or deleted the document between the write and the re-read.
C6_UpdateFrame ==
    /\ [][UpdateOne => UpdateOneFrame]_vars
    /\ [][\A coll \in Collections : \A i \in 1..Len(database[coll]) :
            \A j \in 1..Len(database'[coll]) :
               database'[coll][j]["_id"] = database[coll][i]["_id"] =>
                  database'[coll][j][TimestampField(coll)]
                     = database[coll][i][TimestampField(coll)]]_vars
    /\ [](ById("PUT") /\ last.status = 200 /\ last.matched /\ ~last.interfered =>
             ShowsPatched(last.result[1], last.pre[1], last.req.body))
C6_Witness ==
    /\ ById("PUT") /\ last.status = 200 /\ last.wrote /\ ~last.interfered
    /\ last.coll = items_collection
    /\ Supplied(last.req.body) = {"quantity"}
    /\ Len(database[items_collection]) = 2

\* C7: GET /items/aggregate answers 200 with exactly one {email, count} entry
\* for every email among the stored items, counting the items that carry it.
EmailCounts ==
    LET docs == database[items_collection]
    IN  {[email |-> docs[i].email,
          count |-> Cardinality({j \in 1..Len(docs) : docs[j].email = docs[i].email})] :
            i \in 1..Len(docs)}
C7_AggregateCounts ==
    (ById("GET") /\ last.req.prefix = "items" /\ last.req.seg = AggregateSeg) =>
        /\ last.status = 200
        /\ {last.result[i] : i \in 1..Len(last.result)} = EmailCounts
        /\ Len(last.result) = Cardinality(EmailCounts)

\* C8: every stored item has a quantity >= 0 and an insert_date, and every
\* stored clock-in record has an insert_datetime.
C8_StoredRecordsWellFormed ==
    /\ \A i \in 1..Len(database[items_collection]) :
          /\ database[items_collection][i].quantity >= 0
          /\ "insert_date" \in DOMAIN database[items_collection][i]
    /\ \A i \in 1..Len(database[clockin_collection]) :
          "insert_datetime" \in DOMAIN database[clockin_collection][i]
C8_Witness ==
    /\ \E i \in 1..Len(database[items_collection]) :
          database[items_collection][i].quantity = 5
    /\ database[clockin_collection] # <<>>
    /\ Sent /\ last.status = 422 /\ last.req.method = "PUT"

\* C9: when a Create, Update or Delete has answered 400, 404 or 500, the store
\* holds no document that the request inserted or wrote a field of.
C9_ErrorLeavesNothing ==
    (/\ Sent /\ last.req.method \in {"POST", "PUT", "DELETE"}
     /\ last.status \in {400, 404, 500}) =>
        (last.wrote => \A coll \in Collections : ~Present(coll, last.oid))
C9_Witness ==
    /\ Sent /\ last.req.method = "PUT" /\ last.status = 404 /\ last.wrote
    /\ database[items_collection] # <<>>

\* C10: a filter request returns exactly the stored records that satisfy the
\* predicate of every supplied parameter, and a supplied parameter always counts.
DateAfter(a, b) ==
    \/ a.y > b.y
    \/ a.y = b.y /\ a.m > b.m
    \/ a.y = b.y /\ a.m = b.m /\ a.d > b.d
Satisfies(entity, params) ==
    \A k \in DOMAIN params :
        \/ params[k] = None
        \/ CASE k \in {"email", "location"} -> entity[k] = params[k][1]
             [] k = "quantity" -> entity[k] >= params[k][1]
             [] k = "expiry_date" -> DateAfter(entity[k], params[k][1])
             [] k \in DatetimeFields -> entity[k] > params[k][1]
C10_FilterIsConjunction ==
    (ById("GET") /\ last.req.seg = FilterSeg) =>
        /\ last.status = 200
        /\ last.result = SelectSeq(entities(last.coll, database[last.coll], now),
                                   LAMBDA e : Satisfies(e, last.req.params))
====
